---------------------------- MODULE Spec2Model ----------------------------
(***************************************************************************)
(* A model of src/polyfill.js, the Scroll Timing polyfill: the module      *)
(* state of the IIFE (lines 5-12, 96), the entry class (14-44), the frame  *)
(* loop (56-68), the three document listeners (98-117), the end of an      *)
(* interaction (70-93) and the PerformanceObserver wrapper (122-148).      *)
(*                                                                         *)
(* The host is modelled by a millisecond clock (performance.now), the set  *)
(* of pending setTimeout timers and the set of pending requestAnimation-   *)
(* Frame callbacks.  History variables (lastEnd, cur, hint, lastCall, gone, *)
(* owners, scriptRuns) record what properties talk about; no action of the  *)
(* program reads them.                                                     *)
(***************************************************************************)
EXTENDS Integers, Sequences, FiniteSets, TLC

\* ------------------------------------------------------------------ bounds
\* Number of clock steps the model explores (the clock stops at Horizon).
MaxTicks == 10
\* Number of subscriptions the scroll registry may hold.
MaxSubs == 2
\* Number of clock steps explored while the page subscribes and unsubscribes.
MaxRegistryTicks == 4
\* Milliseconds by which the timestamp of a frame may precede the clock.
FrameSkew == 10
\* Number of times the page runs the polyfill script.
MaxScriptRuns == 3

\* The clock advances in steps of these many milliseconds.
Steps == {50}
Horizon == MaxTicks * 50

\* -------------------------------------------------------- program constants
\* setTimeout(endScrollTracking, 150)
QuietWindow == 150
\* const targetFrameDuration = 1000 / 60
TargetFps == 60
\* README: hints are associated with scroll events within a 250ms window
HintTTL == 250

\* ------------------------------------------------------------------ values
\* JavaScript null for the time-valued variables and for handles.
NoTime == -1
NoHandle == 0
\* JavaScript null for currentScroll.
NoScroll == [source |-> "null", target |-> "null"]

\* Event targets the host reports: the document node and a nested scroller.
Targets == {"document", "scroller"}
\* Keys the host may report in a keydown event.
Keys == {"PageDown", "Tab"}
\* Observer callbacks the page constructs observers with.
Callbacks == {"cb1", "cb2"}
\* The observers the page constructs, new PerformanceObserver(callback): o1
\* and o3 with the same function cb1, o2 with cb2.
Observers == {"o1", "o2", "o3"}
CallbackOf(observer) == IF observer = "o2" THEN "cb2" ELSE "cb1"
\* The options objects the page passes to observe().
OptionSet == {[type |-> "scroll", entryTypes |-> {}, buffered |-> TRUE],
              [type |-> "paint", entryTypes |-> {}, buffered |-> FALSE],
              [type |-> "none", entryTypes |-> {"scroll", "paint"},
               buffered |-> FALSE]}

VARIABLES
  \* the module state of the polyfill
  scrollObservers, currentScroll, frameCount, expectedFrames,
  scrollStartTime, lastFrameTime, checkerboardTime, rafId, scrollTimeout,
  \* the host
  now, timers, rafQueue, frameRan,
  \* the page: the latest record it has built with the exposed constructor,
  \* the names of the polyfill on the window object and the number of times
  \* the body of the script has run (each run adds the listeners and a wrapper)
  constructed, window, installs,
  \* history
  lastEnd, cur, hint, lastCall, gone, owners, scriptRuns

progVars == <<currentScroll, frameCount, expectedFrames, scrollStartTime,
              lastFrameTime, checkerboardTime, rafId>>
vars == <<scrollObservers, currentScroll, frameCount, expectedFrames,
          scrollStartTime, lastFrameTime, checkerboardTime, rafId,
          scrollTimeout, now, timers, rafQueue, frameRan, constructed,
          window, installs, lastEnd, cur, hint, lastCall, gone, owners,
          scriptRuns>>
\* The installation of the polyfill and the history of the script's runs.
installVars == <<window, installs, scriptRuns>>
\* What only the page's calls change: the registry, the history of the calls
\* on it, the record the page has built and the installation.
regVars == <<scrollObservers, lastCall, gone, owners, constructed, installVars>>

Max(a, b) == IF a >= b THEN a ELSE b
Min(a, b) == IF a <= b THEN a ELSE b

\* A handle the host has not handed out among `used`: the host never reuses a
\* handle that is pending or still stored by the program.
FreshHandle(used) == CHOOSE h \in 1..(Cardinality(used) + 1) : h \notin used

\* !x for a time-valued variable: null and 0 are both falsy.
Falsy(t) == t = NoTime \/ t = 0

\* !currentScroll
IsLive == currentScroll # NoScroll


\* ---------------------------------------------------------------- history
\* The documented design (README, "Scroll detection strategy") keeps, per
\* target, the most recent input event (wheel, touchstart, scroll key) as a
\* hint for 250 ms, until a movement notification uses it.  `single` tells
\* that no other hint of the target was pending when it was recorded, so
\* that the input event the interaction belongs to is not in doubt.
NoHint == [src |-> "none", at |-> NoTime, single |-> TRUE]
NoHints == [t \in Targets |-> NoHint]
HintFresh(h) == h.src # "none" /\ now - h.at <= HintTTL
RecordHint(source, target) ==
  [hint EXCEPT ![target] = [src |-> source, at |-> now,
                            single |-> hint[target].src = "none"]]

\* What the history knows about the interaction that is live: the times of
\* its first and latest movement notification, the targets they named, the
\* source and start time the hints ask for ("any" where they leave it open),
\* and the number of entries endScrollTracking has built for it (saturating
\* at 2).
NoCur == [firstMove |-> NoTime, lastMove |-> NoTime, moveTargets |-> {},
          expSrc |-> "none", expAt |-> NoTime, upgrade |-> "none",
          emits |-> 0]

\* A movement on the document while a nested target holds a hint may belong
\* to the nested target.
HintElsewhere(target) ==
  target = "document" /\ \E t \in Targets \ {target} : hint[t].src # "none"

\* The source the hint h asks for.
Asked(h) == IF h.single THEN h.src ELSE "any"

\* cur after a movement notification on `target`, from `base`.  On the first
\* movement of an interaction the hint of the target, if fresh, names the
\* source and start time to expect; on a later one a fresh hint upgrades an
\* interaction that started without one, once.
CurAfterMove(base, target) ==
  LET first == base.firstMove = NoTime
      h     == hint[target]
      fresh == HintFresh(h)
      open  == ~fresh /\ HintElsewhere(target)
  IN [base EXCEPT
        !.firstMove   = IF first THEN now ELSE @,
        !.lastMove    = now,
        !.moveTargets = @ \cup {target},
        !.expSrc      = IF ~first THEN @
                        ELSE IF fresh THEN Asked(h)
                        ELSE IF open THEN "any" ELSE "other",
        !.expAt       = IF ~first THEN @
                        ELSE IF fresh THEN h.at ELSE now,
        !.upgrade     = IF ~first /\ base.expSrc = "other" /\ @ = "none" /\ fresh
                        THEN Asked(h) ELSE @]

\* The hint of the target is used up by the first movement of an
\* interaction, and by a later one only while the interaction has no source
\* yet.
HintAfterMove(base, target) ==
  IF base.firstMove = NoTime \/ (base.expSrc = "other" /\ base.upgrade = "none")
  THEN IF hint[target].src = "none" /\ HintElsewhere(target)
       THEN [t \in Targets |-> [hint[t] EXCEPT !.single = (hint[t].src = "none")]]
       ELSE [hint EXCEPT ![target] = NoHint]
  ELSE IF base.expSrc = "any"
       THEN [hint EXCEPT ![target].single = (hint[target].src = "none")]
       ELSE hint

\* The documented design (README, "normalizeScrollTarget") reports, for an
\* event whose raw target is null, the window or the document node, the
\* root scrollable surface of the document, document.scrollingElement.
RawRootTargets == {"null", "window", "document"}
NormalizeScrollTarget(target) ==
  IF target \in RawRootTargets THEN "scrollingElement" ELSE target

\* ------------------------------------------------------------ entry class
\* The constructor with the operands of framesDropped exchanged.
EntryDroppedReversed(data) ==
  [entryType        |-> "scroll",
   name             |-> "scroll",
   startTime        |-> data.startTime,
   duration         |-> data.duration,
   endTime          |-> data.startTime + data.duration,
   framesExpected   |-> data.framesExpected,
   framesProduced   |-> data.framesProduced,
   framesDropped    |-> data.framesProduced - data.framesExpected,
   smoothnessScore  |-> IF data.framesExpected > 0
                        THEN <<data.framesProduced, data.framesExpected>>
                        ELSE <<1, 1>>,
   checkerboardTime |-> data.checkerboardTime,
   checkerboardArea |-> 0,
   scrollSource     |-> data.scrollSource,
   target           |-> data.target]

\* The constructor without the `framesExpected > 0 ? ... : 1` of
\* smoothnessScore: the quotient is taken whatever the divisor.
EntryRatioUnguarded(data) ==
  [entryType        |-> "scroll",
   name             |-> "scroll",
   startTime        |-> data.startTime,
   duration         |-> data.duration,
   endTime          |-> data.startTime + data.duration,
   framesExpected   |-> data.framesExpected,
   framesProduced   |-> data.framesProduced,
   framesDropped    |-> data.framesExpected - data.framesProduced,
   smoothnessScore  |-> <<data.framesProduced, data.framesExpected>>,
   checkerboardTime |-> data.checkerboardTime,
   checkerboardArea |-> 0,
   scrollSource     |-> data.scrollSource,
   target           |-> data.target]

\* new PerformanceScrollTimingPolyfill(data); smoothnessScore is kept as the
\* pair <<numerator, denominator>>.
Entry(data) ==
  [entryType        |-> "scroll",
   name             |-> "scroll",
   startTime        |-> data.startTime,
   duration         |-> data.duration,
   endTime          |-> data.startTime + data.duration,
   framesExpected   |-> data.framesExpected,
   framesProduced   |-> data.framesProduced,
   framesDropped    |-> data.framesExpected - data.framesProduced,
   smoothnessScore  |-> IF data.framesExpected > 0
                        THEN <<data.framesProduced, data.framesExpected>>
                        ELSE <<1, 1>>,
   checkerboardTime |-> data.checkerboardTime,
   checkerboardArea |-> 0,
   scrollSource     |-> data.scrollSource,
   target           |-> data.target]

\* entry.toJSON()
ToJSON(entry) ==
  [entryType       |-> entry.entryType,
   name            |-> entry.name,
   startTime       |-> entry.startTime,
   duration        |-> entry.duration,
   smoothnessScore |-> entry.smoothnessScore,
   framesDropped   |-> entry.framesDropped,
   scrollSource    |-> entry.scrollSource]

\* The entry slot of an end that built no entry.
NoEntry == Entry([startTime |-> NoTime, duration |-> 0, framesExpected |-> 0,
                  framesProduced |-> 0, checkerboardTime |-> 0,
                  scrollSource |-> "null", target |-> "null"])

\* ------------------------------------------------------------- frame loop
\* The increment without its Math.max(1, ...).
ExpectedIncrementUnclamped(frameDuration) ==
  (2 * frameDuration * TargetFps + 1000) \div 2000

\* The number of whole target frames in frameDuration, with neither the
\* rounding nor the Math.max(1, ...).
ExpectedIncrementFloor(frameDuration) ==
  (frameDuration * TargetFps) \div 1000

\* Math.max(1, Math.round(frameDuration / targetFrameDuration)) with
\* targetFrameDuration = 1000 / 60.  Math.round rounds halves up; the clock
\* steps keep frameDuration off the half-way values, where the double
\* quotient decides.
ExpectedIncrement(frameDuration) ==
  Max(1, (2 * frameDuration * TargetFps + 1000) \div 2000)

\* The documented design (README, "measureRefreshRate") samples the frame
\* intervals on page load and takes their median for the frame time; the
\* host of the model delivers a frame per clock step.
MeasuredFrameTime == CHOOSE d \in Steps : \A e \in Steps : d <= e

\* max(1, round(elapsed / (1000 / hz))) with 1000 / hz the measured frame time.
MeasuredIncrement(elapsed) ==
  Max(1, (2 * elapsed + MeasuredFrameTime) \div (2 * MeasuredFrameTime))

\* trackFrames(): rafId = requestAnimationFrame(callback)
TrackFrames(queue) ==
  LET h == FreshHandle(queue \cup {rafId})
  IN /\ rafId' = h
     /\ rafQueue' = queue \cup {h}

\* startScrollTracking(source, target)
StartScrollTracking(source, target) ==
  /\ scrollStartTime' = now
  /\ frameCount' = 0
  /\ expectedFrames' = 0
  /\ lastFrameTime' = now
  /\ checkerboardTime' = 0
  /\ currentScroll' = [source |-> source, target |-> target]
  /\ TrackFrames(rafQueue)

\* The timestamps the host may pass to a frame callback: the time the frame
\* began, which is the clock or FrameSkew earlier (the listeners of the
\* same frame have read the clock since).
FrameTimes == {t \in {now, now - FrameSkew} : t >= 0}

\* The frame callback with an estimate of the unpainted time: the delay of
\* a late frame is added to checkerboardTime.
FrameCallbackCheckerboard(timestamp) ==
  /\ ~frameRan
  /\ \E h \in rafQueue :
       /\ frameRan' = TRUE
       /\ IF ~IsLive
          THEN /\ rafQueue' = rafQueue \ {h}
               /\ UNCHANGED progVars
          ELSE /\ frameCount' = frameCount + 1
               /\ expectedFrames' =
                    expectedFrames + ExpectedIncrement(timestamp - lastFrameTime)
               /\ checkerboardTime' =
                    checkerboardTime + Max(0, timestamp - lastFrameTime)
               /\ lastFrameTime' = timestamp
               /\ TrackFrames(rafQueue \ {h})
               /\ UNCHANGED <<currentScroll, scrollStartTime>>
  /\ UNCHANGED <<regVars, scrollTimeout, now, timers, lastEnd, cur, hint>>

\* The callback trackFrames hands to requestAnimationFrame, run by the host
\* with the given timestamp, at most one frame per clock value.
FrameCallback(timestamp) ==
  /\ ~frameRan
  /\ \E h \in rafQueue :
       /\ frameRan' = TRUE
       /\ IF ~IsLive
          THEN /\ rafQueue' = rafQueue \ {h}
               /\ UNCHANGED progVars
          ELSE /\ frameCount' = frameCount + 1
               /\ expectedFrames' =
                    expectedFrames + ExpectedIncrement(timestamp - lastFrameTime)
               /\ lastFrameTime' = timestamp
               /\ TrackFrames(rafQueue \ {h})
               /\ UNCHANGED <<currentScroll, scrollStartTime, checkerboardTime>>
  /\ UNCHANGED <<regVars, scrollTimeout, now, timers, lastEnd, cur, hint>>


\* ----------------------------------------------------- end of interaction
\* What the history keeps of the latest call of endScrollTracking, until the
\* next interaction starts; nth numbers the entries built for the same
\* interaction, notified lists the callbacks invoked with the entry,
\* notifiedBy the observers whose subscriptions they were, subs is the number
\* of subscriptions when the dispatch began, copies the number of installed
\* copies of the polyfill, running tells that the dispatch had not returned
\* when the model stopped following it and gone is the value of the history
\* variable gone at that time.
EndRecord(emitted, entry, notified, threw) ==
  [at |-> now, emitted |-> emitted, entry |-> entry,
   notified |-> notified, threw |-> threw, gone |-> gone,
   notifiedBy |-> SubSeq(owners, 1, Len(notified)),
   subs |-> IF emitted THEN Len(scrollObservers) ELSE 0,
   copies |-> IF emitted THEN installs ELSE 0, running |-> FALSE,
   nth |-> IF emitted THEN Min(cur.emits + 1, 2) ELSE cur.emits,
   firstMove |-> cur.firstMove, lastMove |-> cur.lastMove,
   moveTargets |-> cur.moveTargets,
   expSrc |-> cur.expSrc, expAt |-> cur.expAt, upgrade |-> cur.upgrade]

\* Before endScrollTracking has been called.
NoEnd == [at |-> NoTime, emitted |-> FALSE, entry |-> NoEntry,
          notified |-> <<>>, threw |-> FALSE, gone |-> {}, nth |-> 0,
          notifiedBy |-> <<>>, subs |-> 0, copies |-> 0, running |-> FALSE,
          firstMove |-> NoTime, lastMove |-> NoTime,
          moveTargets |-> {}, expSrc |-> "none", expAt |-> NoTime,
          upgrade |-> "none"]

\* The callbacks of the first n subscriptions, in insertion order.
CallbacksOf(n) == [i \in 1..n |-> scrollObservers[i].callback]

\* endScrollTracking() without its cancelAnimationFrame(rafId): the frame
\* callback of the ended interaction stays pending.
EndWithoutCancel(thrower) ==
  IF ~IsLive \/ Falsy(scrollStartTime)
  THEN /\ lastEnd' = EndRecord(FALSE, NoEntry, <<>>, FALSE)
       /\ UNCHANGED <<progVars, rafQueue, cur>>
  ELSE LET entry == Entry([startTime        |-> scrollStartTime,
                           duration         |-> now - scrollStartTime,
                           framesExpected   |-> expectedFrames,
                           framesProduced   |-> frameCount,
                           checkerboardTime |-> checkerboardTime,
                           scrollSource     |-> currentScroll.source,
                           target           |-> currentScroll.target])
           n == IF thrower = 0 THEN Len(scrollObservers) ELSE thrower
       IN /\ lastEnd' = EndRecord(TRUE, entry, CallbacksOf(n), thrower # 0)
          /\ IF thrower = 0
             THEN /\ currentScroll' = NoScroll
                  /\ scrollStartTime' = NoTime
                  /\ cur' = NoCur
             ELSE /\ cur' = [cur EXCEPT !.emits = Min(@ + 1, 2)]
                  /\ UNCHANGED <<currentScroll, scrollStartTime>>
          /\ UNCHANGED <<frameCount, expectedFrames, lastFrameTime,
                         checkerboardTime, rafId, rafQueue>>

\* endScrollTracking().  thrower is the position in scrollObservers of the
\* subscription whose callback throws during this dispatch (0: none does):
\* forEach stops there and lines 91-92 are not reached.
EndScrollTracking(thrower) ==
  IF ~IsLive \/ Falsy(scrollStartTime)
  THEN /\ lastEnd' = EndRecord(FALSE, NoEntry, <<>>, FALSE)
       /\ UNCHANGED <<progVars, rafQueue, cur>>
  ELSE LET entry == Entry([startTime        |-> scrollStartTime,
                           duration         |-> now - scrollStartTime,
                           framesExpected   |-> expectedFrames,
                           framesProduced   |-> frameCount,
                           checkerboardTime |-> checkerboardTime,
                           scrollSource     |-> currentScroll.source,
                           target           |-> currentScroll.target])
           n == IF thrower = 0 THEN Len(scrollObservers) ELSE thrower
       IN /\ rafQueue' = rafQueue \ {rafId}
          /\ lastEnd' = EndRecord(TRUE, entry, CallbacksOf(n), thrower # 0)
          /\ IF thrower = 0
             THEN /\ currentScroll' = NoScroll
                  /\ scrollStartTime' = NoTime
                  /\ cur' = NoCur
             ELSE /\ cur' = [cur EXCEPT !.emits = Min(@ + 1, 2)]
                  /\ UNCHANGED <<currentScroll, scrollStartTime>>
          /\ UNCHANGED <<frameCount, expectedFrames, lastFrameTime,
                         checkerboardTime, rafId>>

\* The host runs a due timer: the callback of setTimeout(endScrollTracking, 150).
TimerFire ==
  /\ \E t \in timers :
       /\ t.due <= now
       /\ timers' = timers \ {t}
       /\ \E thrower \in 0..Len(scrollObservers) : EndScrollTracking(thrower)
  /\ UNCHANGED <<regVars, scrollTimeout, now, frameRan, hint>>

\* What an observer callback does when it is invoked with a record: it
\* returns, or it first calls observe({type: 'scroll'}) or disconnect() on
\* its observer.
Behaviours == [Callbacks -> {"returns", "observes", "disconnects"}]

\* scrollObservers.forEach(observer => observer.callback(...)) from position
\* i on, with callbacks that behave as `does` says; d holds the registry, its
\* owners, the history of the calls and the callbacks invoked so far.
\* Set.prototype.forEach visits the elements added while it runs and skips
\* those deleted before their turn.  The model follows the dispatch while
\* the registry holds at most MaxSubs subscriptions.
RECURSIVE Dispatch(_, _, _)
Dispatch(d, i, does) ==
  IF i > Len(d.reg)
  THEN d
  ELSE LET obs      == d.reg[i]
           invoked  == [d EXCEPT !.notified = Append(@, obs.callback),
                                 !.notifiedBy = Append(@, d.own[i])]
           keeps(k) == d.reg[k].callback # obs.callback
           kept     == {k \in 1..Len(d.reg) : keeps(k)}
       IN CASE does[obs.callback] = "returns" ->
                 Dispatch(invoked, i + 1, does)
            [] does[obs.callback] = "observes" ->
                 IF Len(d.reg) >= MaxSubs
                 THEN [invoked EXCEPT !.running = TRUE]
                 ELSE Dispatch([invoked EXCEPT
                                  !.reg  = Append(@, [callback |-> obs.callback,
                                                      options  |-> obs.options]),
                                  !.own  = Append(@, d.own[i]),
                                  !.gone = @ \ {obs.callback}],
                               i + 1, does)
            [] does[obs.callback] = "disconnects" ->
                 Dispatch([invoked EXCEPT
                             !.reg  = SelectSeq(@, LAMBDA o : o.callback # obs.callback),
                             !.own  = SelectSeq(@, LAMBDA o : CallbackOf(o) # obs.callback),
                             !.gone = @ \cup {obs.callback}],
                          Cardinality({k \in kept : k < i}) + 1, does)

\* endScrollTracking() with observer callbacks that call observe() or
\* disconnect() while the record is dispatched.  When the dispatch does not
\* return, lines 91-92 are not reached.
EndScrollTrackingReentrant(does) ==
  IF ~IsLive \/ Falsy(scrollStartTime)
  THEN /\ lastEnd' = EndRecord(FALSE, NoEntry, <<>>, FALSE)
       /\ UNCHANGED <<progVars, rafQueue, cur, scrollObservers, owners, gone>>
  ELSE LET entry == Entry([startTime        |-> scrollStartTime,
                           duration         |-> now - scrollStartTime,
                           framesExpected   |-> expectedFrames,
                           framesProduced   |-> frameCount,
                           checkerboardTime |-> checkerboardTime,
                           scrollSource     |-> currentScroll.source,
                           target           |-> currentScroll.target])
           d == Dispatch([reg |-> scrollObservers, own |-> owners,
                          gone |-> gone, notified |-> <<>>,
                          notifiedBy |-> <<>>, running |-> FALSE], 1, does)
       IN /\ rafQueue' = rafQueue \ {rafId}
          /\ scrollObservers' = d.reg
          /\ owners' = d.own
          /\ gone' = d.gone
          /\ lastEnd' = [EndRecord(TRUE, entry, <<>>, FALSE) EXCEPT
                           !.notified = d.notified,
                           !.notifiedBy = d.notifiedBy,
                           !.running = d.running]
          /\ IF ~d.running
             THEN /\ currentScroll' = NoScroll
                  /\ scrollStartTime' = NoTime
                  /\ cur' = NoCur
             ELSE /\ cur' = [cur EXCEPT !.emits = Min(@ + 1, 2)]
                  /\ UNCHANGED <<currentScroll, scrollStartTime>>
          /\ UNCHANGED <<frameCount, expectedFrames, lastFrameTime,
                         checkerboardTime, rafId>>

\* The host runs a due timer while the page's callbacks behave as one of
\* Behaviours.
TimerFireReentrant ==
  /\ \E t \in timers :
       /\ t.due <= now
       /\ timers' = timers \ {t}
       /\ \E does \in Behaviours : EndScrollTrackingReentrant(does)
  /\ UNCHANGED <<lastCall, constructed, installVars, scrollTimeout, now,
                 frameRan, hint>>

\* ---------------------------------------------------------------- listeners
\* The scroll listener without its clearTimeout: the timer armed by the
\* previous movement stays pending.
RearmWithoutClear ==
  LET h == FreshHandle({t.h : t \in timers} \cup {scrollTimeout})
  IN /\ timers' = timers \cup {[h |-> h, due |-> now + QuietWindow]}
     /\ scrollTimeout' = h

\* clearTimeout(scrollTimeout); scrollTimeout = setTimeout(endScrollTracking, 150)
RearmIdleTimer ==
  LET kept == {t \in timers : t.h # scrollTimeout}
      h    == FreshHandle({t.h : t \in kept} \cup {scrollTimeout})
  IN /\ timers' = kept \cup {[h |-> h, due |-> now + QuietWindow]}
     /\ scrollTimeout' = h

\* The scroll listener without its `if (!currentScroll)`: every movement
\* starts the tracking afresh.
OnScrollRestart(target) ==
  /\ StartScrollTracking("unknown", target)
  /\ cur' = CurAfterMove(IF IsLive THEN cur ELSE NoCur, target)
  /\ hint' = HintAfterMove(IF IsLive THEN cur ELSE NoCur, target)
  /\ lastEnd' = IF IsLive THEN lastEnd ELSE NoEnd
  /\ RearmIdleTimer
  /\ UNCHANGED <<regVars, now, frameRan>>

\* document.addEventListener('scroll', ...)
OnScroll(target) ==
  /\ IF ~IsLive
     THEN /\ StartScrollTracking("unknown", target)
          /\ cur' = CurAfterMove(NoCur, target)
          /\ hint' = HintAfterMove(NoCur, target)
          /\ lastEnd' = NoEnd
     ELSE /\ UNCHANGED <<progVars, rafQueue, lastEnd>>
          /\ cur' = CurAfterMove(cur, target)
          /\ hint' = HintAfterMove(cur, target)
  /\ RearmIdleTimer
  /\ UNCHANGED <<regVars, now, frameRan>>

\* The wheel and touchstart listeners: start tracking if nothing is live.
OnInput(source, target) ==
  /\ IF ~IsLive
     THEN /\ StartScrollTracking(source, target)
          /\ cur' = NoCur
          /\ lastEnd' = NoEnd
     ELSE UNCHANGED <<progVars, rafQueue, cur, lastEnd>>
  /\ hint' = RecordHint(source, target)
  /\ UNCHANGED <<regVars, scrollTimeout, now, timers, frameRan>>

\* document.addEventListener('wheel', ...)
OnWheel(target) == OnInput("wheel", target)

\* document.addEventListener('touchstart', ...)
OnTouchStart(target) == OnInput("touch", target)

\* The keys that scroll (README: keydown is one of the input hints).
ScrollKeys == {"ArrowUp", "ArrowDown", "ArrowLeft", "ArrowRight",
               "PageUp", "PageDown", "Home", "End", "Space"}

\* A key press: the polyfill registers no keydown listener, so the program
\* state stays as it is.
KeyDown(key, target) ==
  /\ hint' = IF key \in ScrollKeys
             THEN RecordHint("keyboard", target)
             ELSE hint
  /\ UNCHANGED <<regVars, progVars, scrollTimeout, now, timers,
                 rafQueue, frameRan, lastEnd, cur>>

\* ------------------------------------------------------- observer wrapper
\* options.type === 'scroll' || options.entryTypes?.includes('scroll')
SelectsScroll(options) ==
  options.type = "scroll" \/ "scroll" \in options.entryTypes

\* !options.type is a boolean and 'scroll' a string.
JsNot(type) == [tag |-> "boolean", val |-> IF type = "none" THEN "true" ELSE "false"]
JsString(str) == [tag |-> "string", val |-> str]
StrictEquals(a, b) == a = b

\* The catch block with an unconditional `throw e`.
RethrowsAlways(options) == TRUE

\* if (!options.type === 'scroll') throw e
Rethrows(options) == StrictEquals(JsNot(options.type), JsString("scroll"))

\* What the history keeps of the latest observe() or disconnect(): whether
\* its options select 'scroll', whether it called the native method, whether
\* that threw, and whether the call threw to its caller.
NoCall == [op |-> "none", selects |-> FALSE, forwarded |-> FALSE,
           nativeThrew |-> FALSE, threw |-> FALSE]

\* observe() that honours buffered: true by invoking the callback with the
\* latest entry.
ObserveReplay(observer, options, nativeThrows) ==
  LET callback == CallbackOf(observer)
  IN /\ Len(scrollObservers) < MaxSubs
     /\ scrollObservers' =
          IF SelectsScroll(options)
          THEN Append(scrollObservers, [callback |-> callback, options |-> options])
          ELSE scrollObservers
     /\ owners' = IF SelectsScroll(options) THEN Append(owners, observer)
                  ELSE owners
     /\ lastCall' = [op |-> "observe", selects |-> SelectsScroll(options),
                     forwarded |-> TRUE, nativeThrew |-> nativeThrows,
                     threw |-> nativeThrows /\ Rethrows(options)]
     /\ gone' = IF SelectsScroll(options) THEN gone \ {callback} ELSE gone
     /\ lastEnd' = IF SelectsScroll(options) /\ options.buffered /\ lastEnd.emitted
                   THEN [lastEnd EXCEPT !.notified = Append(@, callback)]
                   ELSE lastEnd
     /\ UNCHANGED <<progVars, scrollTimeout, now, timers, rafQueue, frameRan,
                    constructed, installVars, cur, hint>>

\* observer.observe(options) of an observer constructed with
\* CallbackOf(observer); nativeThrows tells whether originalObserve(options)
\* throws.
Observe(observer, options, nativeThrows) ==
  LET callback == CallbackOf(observer)
  IN /\ Len(scrollObservers) < MaxSubs
     /\ scrollObservers' =
          IF SelectsScroll(options)
          THEN Append(scrollObservers, [callback |-> callback, options |-> options])
          ELSE scrollObservers
     /\ owners' = IF SelectsScroll(options) THEN Append(owners, observer)
                  ELSE owners
     /\ lastCall' = [op |-> "observe", selects |-> SelectsScroll(options),
                     forwarded |-> TRUE,
                     nativeThrew |-> nativeThrows,
                     threw |-> nativeThrows /\ Rethrows(options)]
     /\ gone' = IF SelectsScroll(options) THEN gone \ {callback} ELSE gone
     /\ UNCHANGED <<progVars, scrollTimeout, now, timers, rafQueue, frameRan,
                    constructed, installVars, lastEnd, cur, hint>>

\* Whether the registry holds a subscription of callback.
Subscribed(callback) ==
  \E i \in 1..Len(scrollObservers) : scrollObservers[i].callback = callback

\* The history of disconnect(): gone holds the callbacks whose subscriptions
\* a disconnect() removed and that have not subscribed again since.
DisconnectHistory(observer) ==
  /\ lastCall' = [op |-> "disconnect", selects |-> FALSE, forwarded |-> TRUE,
                  nativeThrew |-> FALSE, threw |-> FALSE]
  /\ gone' = IF Subscribed(CallbackOf(observer))
             THEN gone \cup {CallbackOf(observer)} ELSE gone

\* disconnect() deleting only the first subscription of the callback.
DisconnectFirstOnly(observer) ==
  LET callback == CallbackOf(observer)
      first == CHOOSE i \in 1..Len(scrollObservers) :
                 /\ scrollObservers[i].callback = callback
                 /\ \A j \in 1..(i - 1) : scrollObservers[j].callback # callback
  IN /\ scrollObservers' =
          IF Subscribed(callback)
          THEN SubSeq(scrollObservers, 1, first - 1) \o
               SubSeq(scrollObservers, first + 1, Len(scrollObservers))
          ELSE scrollObservers
     /\ owners' =
          IF Subscribed(callback)
          THEN SubSeq(owners, 1, first - 1) \o
               SubSeq(owners, first + 1, Len(owners))
          ELSE owners
     /\ DisconnectHistory(observer)
     /\ UNCHANGED <<progVars, scrollTimeout, now, timers, rafQueue, frameRan,
                    constructed, installVars, lastEnd, cur, hint>>

\* observer.disconnect() of an observer constructed with
\* CallbackOf(observer): every subscription with that callback is deleted.
Disconnect(observer) ==
  LET callback == CallbackOf(observer)
  IN /\ scrollObservers' =
          SelectSeq(scrollObservers, LAMBDA obs : obs.callback # callback)
     /\ owners' = SelectSeq(owners, LAMBDA o : CallbackOf(o) # callback)
     /\ DisconnectHistory(observer)
     /\ UNCHANGED <<progVars, scrollTimeout, now, timers, rafQueue, frameRan,
                    constructed, installVars, lastEnd, cur, hint>>

\* ------------------------------------------------------- the constructor
\* The data objects the page passes to the constructor: timing that is
\* negative, an unrecognized source and a target that is not an element
\* among them.
ConstructorInputs ==
  [startTime        : {-50, 0, 100},
   duration         : {-20, 0, 150},
   framesExpected   : {0, 3, 9},
   framesProduced   : {0, 3},
   checkerboardTime : {0},
   scrollSource     : {"wheel", "mouse"},
   target           : {"scroller", "not an element"}]

\* new window.PerformanceScrollTiming(data), called by the page.
Construct(data) ==
  /\ constructed' = Entry(data)
  /\ UNCHANGED <<scrollObservers, lastCall, gone, owners, installVars,
                 progVars, scrollTimeout, now, timers, rafQueue, frameRan,
                 lastEnd, cur, hint>>

\* ------------------------------------------------------------ installation
\* The script without its `if ('PerformanceScrollTiming' in window) return;`.
RunScriptUnguarded ==
  /\ scriptRuns < MaxScriptRuns
  /\ scriptRuns' = scriptRuns + 1
  /\ installs' = installs + 1
  /\ window' = window \cup {"PerformanceScrollTiming"}
  /\ UNCHANGED <<scrollObservers, lastCall, gone, owners, constructed,
                 progVars, scrollTimeout, now, timers, rafQueue, frameRan,
                 lastEnd, cur, hint>>

\* The page runs the polyfill script (again): the IIFE returns at once when
\* the window has PerformanceScrollTiming, and otherwise its body adds the
\* three listeners, wraps window.PerformanceObserver and sets
\* window.PerformanceScrollTiming.
RunScript ==
  /\ scriptRuns < MaxScriptRuns
  /\ scriptRuns' = scriptRuns + 1
  /\ IF "PerformanceScrollTiming" \in window
     THEN UNCHANGED <<window, installs>>
     ELSE /\ installs' = installs + 1
          /\ window' = window \cup {"PerformanceScrollTiming"}
  /\ UNCHANGED <<scrollObservers, lastCall, gone, owners, constructed,
                 progVars, scrollTimeout, now, timers, rafQueue, frameRan,
                 lastEnd, cur, hint>>

\* ---------------------------------------------------------------- the host
\* The clock advances; a pending timer is run when it is due, so the clock
\* does not pass a due time.  Hints older than the hint window are dropped.
Advance(d) ==
  /\ now + d <= Horizon
  /\ \A t \in timers : t.due > now
  /\ now' = IF \E t \in timers : t.due < now + d
            THEN CHOOSE due \in {t.due : t \in timers} :
                   \A t \in timers : due <= t.due
            ELSE now + d
  /\ hint' = [t \in Targets |->
               IF hint[t].src # "none" /\ now' - hint[t].at > HintTTL
               THEN NoHint ELSE hint[t]]
  /\ frameRan' = FALSE
  /\ UNCHANGED <<regVars, progVars, scrollTimeout, timers, rafQueue,
                 lastEnd, cur>>

\* The state after the IIFE has run, with the given scroll registry.
InitWith(registry) ==
  /\ scrollObservers = registry
  /\ currentScroll = NoScroll
  /\ frameCount = 0
  /\ expectedFrames = 0
  /\ scrollStartTime = NoTime
  /\ lastFrameTime = NoTime
  /\ checkerboardTime = 0
  /\ rafId = NoHandle
  /\ scrollTimeout = NoHandle
  /\ now = 0
  /\ timers = {}
  /\ rafQueue = {}
  /\ frameRan = FALSE
  /\ constructed = NoEntry
  /\ window = {"PerformanceObserver", "PerformanceScrollTiming"}
  /\ installs = 1
  /\ scriptRuns = 1
  /\ owners = [i \in 1..Len(registry) |->
                IF registry[i].callback = "cb2" THEN "o2" ELSE "o1"]
  /\ lastEnd = NoEnd
  /\ cur = NoCur
  /\ hint = NoHints
  /\ lastCall = NoCall
  /\ gone = {}

Init == InitWith(<<>>)

Next ==
  \/ \E target \in Targets : OnScroll(target)
  \/ \E target \in Targets : OnWheel(target)
  \/ \E target \in Targets : OnTouchStart(target)
  \/ \E key \in Keys, target \in Targets : KeyDown(key, target)
  \/ \E timestamp \in FrameTimes : FrameCallback(timestamp)
  \/ TimerFire
  \/ TimerFireReentrant
  \/ \E observer \in Observers, options \in OptionSet, nativeThrows \in BOOLEAN :
       Observe(observer, options, nativeThrows)
  \/ \E observer \in Observers : Disconnect(observer)
  \/ \E data \in ConstructorInputs : Construct(data)
  \/ RunScript
  \/ \E d \in Steps : Advance(d)

Spec == Init /\ [][Next]_vars

\* ------------------------------------------------- the page while it scrolls
\* The registry after the page has called
\* observe({type: 'scroll', buffered: true}) n times while loading, on
\* observers constructed with cb1, cb2, cb1, ...
PageLoadRegistry(n) ==
  [i \in 1..n |-> [callback |-> IF i % 2 = 1 THEN "cb1" ELSE "cb2",
                   options  |-> [type |-> "scroll", entryTypes |-> {},
                                 buffered |-> TRUE]]]

\* Movement on either target, frames stamped with the clock and the idle
\* timer, for every registry the page may have set up while loading.
TrackingInit == \E n \in 0..MaxSubs : InitWith(PageLoadRegistry(n))

TrackingNext ==
  \/ \E target \in Targets : OnScroll(target)
  \/ FrameCallback(now)
  \/ TimerFire
  \/ \E d \in Steps : Advance(d)

TrackingSpec == TrackingInit /\ [][TrackingNext]_vars

\* The input events and the movement they cause on the document, with one
\* observer subscribed; frames play no part in the attribution.
InputInit == InitWith(PageLoadRegistry(1))

InputNext ==
  \/ OnScroll("document")
  \/ OnWheel("document")
  \/ OnTouchStart("document")
  \/ \E key \in Keys : KeyDown(key, "document")
  \/ TimerFire
  \/ \E d \in Steps : Advance(d)

InputSpec == InputInit /\ [][InputNext]_vars

\* The page subscribes and unsubscribes, with observers of distinct
\* callbacks, while the document scrolls.
RegistryNext ==
  \/ \E observer \in {"o1", "o2"}, options \in OptionSet, nativeThrows \in BOOLEAN :
       Observe(observer, options, nativeThrows)
  \/ \E observer \in {"o1", "o2"} : Disconnect(observer)
  \/ OnScroll("document")
  \/ TimerFire
  \/ \E d \in Steps : now + d <= MaxRegistryTicks * 50 /\ Advance(d)

RegistrySpec == Init /\ [][RegistryNext]_vars

\* Movement on the document with frames whose timestamp may precede the
\* clock, with one observer subscribed.
FrameNext ==
  \/ OnScroll("document")
  \/ \E timestamp \in FrameTimes : FrameCallback(timestamp)
  \/ TimerFire
  \/ \E d \in Steps : Advance(d)

FrameSpec == InputInit /\ [][FrameNext]_vars

\* Two observers constructed with the same callback subscribe and
\* unsubscribe while the document scrolls.
SharedCallbackNext ==
  \/ \E observer \in {"o1", "o3"}, options \in OptionSet :
       Observe(observer, options, FALSE)
  \/ \E observer \in {"o1", "o3"} : Disconnect(observer)
  \/ OnScroll("document")
  \/ TimerFire
  \/ \E d \in Steps : now + d <= MaxRegistryTicks * 50 /\ Advance(d)

SharedCallbackSpec == Init /\ [][SharedCallbackNext]_vars

\* The document scrolls while the callbacks of the page's observers call
\* observe() or disconnect() during the dispatch.
ReentrantNext ==
  \/ OnScroll("document")
  \/ TimerFireReentrant
  \/ \E d \in Steps : Advance(d)

ReentrantSpec == TrackingInit /\ [][ReentrantNext]_vars

\* The page runs the script again while the document scrolls.
InstallNext ==
  \/ RunScript
  \/ OnScroll("document")
  \/ TimerFire
  \/ \E d \in Steps : Advance(d)

InstallSpec == InputInit /\ [][InstallNext]_vars

\* The page builds records with the exposed constructor.
ConstructNext == \E data \in ConstructorInputs : Construct(data)

ConstructSpec == Init /\ [][ConstructNext]_vars

\* ------------------------------------------------------------------ claims
\* C1: at most one record is handed to the observers for an interaction,
\* however movement notifications, frames and idle-timer expiries interleave.
C1_ExactlyOnceEmission == lastEnd.emitted => lastEnd.nth = 1

\* C2: every interaction state that a listener has created (scroll, wheel or
\* touchstart) has its idle timer armed, so that it ends once input stops.
C2_LiveStateHasIdleTimer ==
  IsLive => \E t \in timers : t.h = scrollTimeout

C4_QuietWindow ==
  /\ (cur.lastMove # NoTime /\ now < cur.lastMove + QuietWindow) =>
       timers = {[h |-> scrollTimeout, due |-> cur.lastMove + QuietWindow]}
  /\ lastEnd.emitted =>
       /\ lastEnd.lastMove # NoTime
       /\ lastEnd.at >= lastEnd.lastMove + QuietWindow

\* C4, its case: a record built for an interaction whose idle timer was
\* re-armed by a later movement, 150 ms after that movement.
C4_Witness ==
  /\ lastEnd.emitted
  /\ lastEnd.lastMove > lastEnd.firstMove
  /\ lastEnd.lastMove - lastEnd.firstMove < QuietWindow
  /\ lastEnd.at = lastEnd.lastMove + QuietWindow

\* C5: an interaction without a hint whose movements came at t1 .. tn ends
\* when the idle timer expires at tn + 150, with a record of startTime t1
\* and duration tn + 150 - t1.
C5_DurationOfIdleEnd ==
  (lastEnd.at # NoTime /\ lastEnd.expSrc = "other" /\ lastEnd.upgrade = "none") =>
    /\ lastEnd.emitted
    /\ lastEnd.at = lastEnd.lastMove + QuietWindow
    /\ lastEnd.entry.startTime = lastEnd.firstMove
    /\ lastEnd.entry.duration = lastEnd.lastMove + QuietWindow - lastEnd.firstMove

\* C6: the record of an interaction whose first movement came within 250 ms
\* of a wheel event on its target has source "wheel" and starts at the time
\* of the wheel event.
C6_WheelHintAttribution ==
  (lastEnd.emitted /\ lastEnd.expSrc = "wheel") =>
    /\ lastEnd.entry.scrollSource = "wheel"
    /\ lastEnd.entry.startTime = lastEnd.expAt

\* C7: a record starts at most 250 ms before the first movement notification
\* of its interaction.
C7_StartWithinHintWindow ==
  lastEnd.emitted => lastEnd.firstMove - lastEnd.entry.startTime <= HintTTL

\* C8: the source of a record is one of touch, wheel, keyboard, other and
\* programmatic, and it is other when no hint applied.
C8_SourceDomain ==
  lastEnd.emitted =>
    /\ lastEnd.entry.scrollSource \in
         {"touch", "wheel", "keyboard", "other", "programmatic"}
    /\ (lastEnd.expSrc = "other" /\ lastEnd.upgrade = "none") =>
         lastEnd.entry.scrollSource = "other"

\* C9: an interaction that started without a hint takes the source of the
\* first fresh hint a later movement finds on its target.
C9_SourceUpgrade ==
  (lastEnd.emitted /\ lastEnd.upgrade \notin {"none", "any"}) =>
    lastEnd.entry.scrollSource = lastEnd.upgrade

\* C10: the record of an interaction whose first movement came within 250 ms
\* of a scroll key pressed on its target has source "keyboard".
C10_KeyboardAttribution ==
  (lastEnd.emitted /\ lastEnd.expSrc = "keyboard") =>
    lastEnd.entry.scrollSource = "keyboard"

\* C11: a movement notification on the target of the live interaction keeps
\* the one state there is: its start time, its counters and its frame loop
\* stay as they are, and only the idle timer is armed anew.
C11_MovementUpdatesLiveState ==
  [][\A target \in Targets :
       (IsLive /\ currentScroll.target = target /\ OnScroll(target)) =>
         /\ UNCHANGED <<currentScroll, scrollStartTime, frameCount,
                        expectedFrames, lastFrameTime, rafId, rafQueue>>
         /\ timers' = {[h |-> scrollTimeout', due |-> now + QuietWindow]}]_vars

\* C11, its case: a live interaction that has counted a frame and then took
\* a later movement on its target, still with the start time of its first.
C11_Witness ==
  /\ IsLive
  /\ cur.moveTargets = {currentScroll.target}
  /\ cur.lastMove > cur.firstMove
  /\ frameCount >= 1
  /\ lastFrameTime < cur.lastMove
  /\ scrollStartTime = cur.firstMove

\* C12: when observe() is called for an entry type other than scroll and the
\* native observe throws, observe() throws that error to its caller.
C12_OtherTypeErrorsPropagate ==
  (lastCall.op = "observe" /\ ~lastCall.selects /\ lastCall.nativeThrew) =>
    lastCall.threw

\* C13: when observe() is called for scroll and the native observe throws,
\* observe() returns normally and the subscription is in the registry.
C13_ScrollRegistrationNeverFails ==
  [][\A observer \in Observers, options \in OptionSet :
       (SelectsScroll(options) /\ Observe(observer, options, TRUE)) =>
         /\ ~lastCall'.threw
         /\ Len(scrollObservers') = Len(scrollObservers) + 1
         /\ scrollObservers'[Len(scrollObservers')] =
              [callback |-> CallbackOf(observer), options |-> options]]_vars

\* C13, its case: observe() was called for scroll, the native observe threw,
\* and the subscription is there.
C13_Witness ==
  /\ lastCall.op = "observe"
  /\ lastCall.selects
  /\ lastCall.nativeThrew
  /\ ~lastCall.threw
  /\ Len(scrollObservers) >= 1

\* C14: a registration for scroll goes to the polyfill's registry and is not
\* passed on to the native observe.
C14_ScrollNotForwarded ==
  (lastCall.op = "observe" /\ lastCall.selects) => ~lastCall.forwarded

\* C15: when an interaction ends, every callback subscribed for scroll is
\* invoked with the finished record.
C15_FanOut ==
  lastEnd.emitted => lastEnd.notified = CallbacksOf(Len(scrollObservers))

\* C16: disconnect() leaves no subscription of its callback in the registry,
\* and no record that is built afterwards is handed to that callback.
C16_Unregistration ==
  /\ \A callback \in gone : ~Subscribed(callback)
  /\ lastEnd.emitted =>
       \A i \in 1..Len(lastEnd.notified) : lastEnd.notified[i] \notin lastEnd.gone

\* C16, its case: a record built after a disconnect() removed a subscription,
\* handed to the callbacks still subscribed.
C16_Witness ==
  /\ lastEnd.emitted
  /\ lastEnd.gone # {}
  /\ Len(lastEnd.notified) >= 1
  /\ lastEnd.firstMove < lastEnd.at

\* C17: callbacks are invoked only by the end of an interaction, with the
\* record built there, and only those subscribed before it; observe() hands
\* no earlier record to the new subscriber, buffered or not.
C17_NoReplay ==
  [][(lastEnd' # lastEnd /\ lastEnd'.notified # <<>>) =>
       /\ scrollObservers' = scrollObservers
       /\ lastEnd'.at = now
       /\ \A i \in 1..Len(lastEnd'.notified) : Subscribed(lastEnd'.notified[i])]_vars

\* C17, its case: a record was handed out to every subscriber of its time,
\* and a callback that subscribed later with buffered: true has not got it.
C17_Witness ==
  /\ lastEnd.emitted
  /\ ~lastEnd.threw
  /\ lastCall.op = "observe"
  /\ lastCall.selects
  /\ Len(scrollObservers) >= 1
  /\ scrollObservers[Len(scrollObservers)].options.buffered
  /\ \A i \in 1..Len(lastEnd.notified) :
       lastEnd.notified[i] # scrollObservers[Len(scrollObservers)].callback

\* C18: toJSON() of a record has exactly the keys entryType, name, startTime,
\* firstFrameTime, duration, framesExpected, framesProduced, framesDropped,
\* checkerboardTime, scrollSource, target, distanceX and distanceY, each with
\* the value of the record's field.
C18_SerializationFieldSet ==
  lastEnd.emitted =>
    /\ DOMAIN ToJSON(lastEnd.entry) =
         {"entryType", "name", "startTime", "firstFrameTime", "duration",
          "framesExpected", "framesProduced", "framesDropped",
          "checkerboardTime", "scrollSource", "target", "distanceX",
          "distanceY"}
    /\ \A key \in DOMAIN ToJSON(lastEnd.entry) :
         ToJSON(lastEnd.entry)[key] = lastEnd.entry[key]

\* C19: in every record framesExpected and framesProduced are non-negative
\* integers and duration is at least 0.
C19_RecordWellFormed ==
  lastEnd.emitted =>
    /\ lastEnd.entry.framesExpected \in Nat
    /\ lastEnd.entry.framesProduced \in Nat
    /\ lastEnd.entry.duration \in Nat

\* C19, its case: a record whose only frame carried a timestamp earlier than
\* the start of the interaction.
C19_Witness ==
  /\ lastEnd.emitted
  /\ lastEnd.entry.framesProduced = 1
  /\ lastEnd.entry.framesExpected = 1
  /\ lastFrameTime < lastEnd.entry.startTime

\* C20: every record carries firstFrameTime, and it is not earlier than
\* startTime.
C20_FirstFrameTime ==
  lastEnd.emitted =>
    /\ "firstFrameTime" \in DOMAIN lastEnd.entry
    /\ lastEnd.entry.firstFrameTime >= lastEnd.entry.startTime

\* C21: in every record framesDropped is framesExpected minus framesProduced,
\* the counts being those the frame loop had reached when the record was
\* built.
C21_FramesDroppedIsDifference ==
  lastEnd.emitted =>
    /\ lastEnd.entry.framesExpected = expectedFrames
    /\ lastEnd.entry.framesProduced = frameCount
    /\ lastEnd.entry.framesDropped =
         lastEnd.entry.framesExpected - lastEnd.entry.framesProduced

\* C21, its case: a record of an interaction whose frames came late, so that
\* more frames were expected than produced.
C21_Witness ==
  /\ lastEnd.emitted
  /\ lastEnd.entry.framesProduced >= 2
  /\ lastEnd.entry.framesDropped >= 2

\* C22: on every frame callback after the first of an interaction the
\* expected-frame count grows by max(1, round(elapsed / frame time)) with the
\* frame time measured on the host, not that of 60 Hz, so that frames the
\* host delivers at its own steady rate count as none dropped.
C22_MeasuredRateIncrement ==
  [][(IsLive /\ frameCount >= 1 /\ FrameCallback(now)) =>
       expectedFrames' = expectedFrames + MeasuredIncrement(now - lastFrameTime)]_vars

\* C23: every record carries distanceX and distanceY, the signed sums of the
\* offset changes between the movement notifications of its interaction; they
\* are 0 when the offset never changed, as for an interaction of a single
\* movement notification.
C23_Displacement ==
  lastEnd.emitted =>
    /\ {"distanceX", "distanceY"} \subseteq DOMAIN lastEnd.entry
    /\ lastEnd.firstMove = lastEnd.lastMove =>
         /\ lastEnd.entry.distanceX = 0
         /\ lastEnd.entry.distanceY = 0

\* C24: the target of every record is a scrollable surface: that of a
\* movement notification of its interaction, with the document node standing
\* for the root scrollable surface; the document node itself is never
\* reported.
C24_TargetResolution ==
  lastEnd.emitted =>
    /\ lastEnd.entry.target \in
         {NormalizeScrollTarget(t) : t \in lastEnd.moveTargets}
    /\ lastEnd.entry.target \notin RawRootTargets

\* C25: a record built by the constructor from data with negative timing,
\* an unrecognized source or a target that is not an element has the
\* offending fields replaced by defaults: 0 for timing and frame counts,
\* "other" for the source, null for the target.
C25_ConstructionValidation ==
  constructed # NoEntry =>
    /\ constructed.startTime >= 0
    /\ constructed.duration >= 0
    /\ constructed.framesExpected \in Nat
    /\ constructed.framesProduced \in Nat
    /\ constructed.scrollSource \in
         {"touch", "wheel", "keyboard", "other", "programmatic"}
    /\ constructed.target \in {"scroller", "null"}

C27_CheckerboardTimeZero ==
  /\ checkerboardTime = 0
  /\ lastEnd.emitted => lastEnd.entry.checkerboardTime = 0

\* C27, its case: a record of an interaction of several movements whose
\* frames came late, with a checkerboardTime of 0.
C27_Witness ==
  /\ lastEnd.emitted
  /\ lastEnd.lastMove > lastEnd.firstMove
  /\ lastEnd.entry.framesProduced >= 1
  /\ lastEnd.entry.framesDropped >= 1
  /\ lastEnd.entry.checkerboardTime = 0

\* C28: the first frame callback of an interaction adds exactly 1 to the
\* expected-frame count, however long after the start it runs: after one
\* frame callback the expected-frame count is 1.
C28_FirstFrameCountsOne ==
  frameCount = 1 => expectedFrames = 1

\* C29: the end of an interaction cancels its pending frame callback and its
\* idle timer in the same turn, and the ended state is never armed again:
\* from the time its record is built no frame callback and no idle timer is
\* pending for it.
C29_CancellationOnEnd ==
  lastEnd.emitted =>
    /\ rafQueue = {}
    /\ timers = {}

\* C30: at most one frame callback is pending at any time, and only while an
\* interaction is live; a frame callback that runs for a live interaction
\* leaves exactly the one it has scheduled after its update, and one that
\* runs when no interaction is live changes no counter and schedules nothing.
C30_FrameSamplingSelfOrdered ==
  [][/\ Cardinality(rafQueue') <= 1
     /\ rafQueue' # {} => currentScroll' # NoScroll
     /\ \A timestamp \in FrameTimes :
          FrameCallback(timestamp) =>
            IF IsLive
            THEN /\ rafQueue' = {rafId'}
                 /\ rafId' \notin rafQueue
                 /\ frameCount' = frameCount + 1
            ELSE /\ UNCHANGED progVars
                 /\ rafQueue' = {}]_vars

\* C30, its case: a live interaction whose frame callback has run twice, each
\* run having scheduled the next, with that one callback pending.
C30_Witness ==
  /\ IsLive
  /\ frameCount >= 2
  /\ rafQueue = {rafId}

\* C31: an interaction ends once: when its record is built its state is
\* removed, and the state that is live afterwards is a fresh one, created by
\* a later movement notification with that notification's time for start.
C31_Lifecycle ==
  /\ lastEnd.emitted => (~IsLive /\ cur = NoCur)
  /\ (IsLive /\ cur.firstMove # NoTime) => scrollStartTime = cur.firstMove

\* C32: a wheel or touchstart event by itself only records a hint: it
\* creates no interaction state, starts no frame loop and changes no
\* counter; a state is created by a movement notification only.
C32_InputOnlyRecordsHint ==
  [][(OnWheel("document") \/ OnTouchStart("document")) =>
       UNCHANGED <<currentScroll, scrollStartTime, frameCount, expectedFrames,
                   lastFrameTime, rafId, rafQueue>>]_vars

\* C33: observe() for an entry type other than scroll leaves the scroll
\* registry as it is and calls the native observe with the same options, and
\* disconnect() calls the native disconnect, so that the call does what the
\* native call does: it throws to its caller exactly when the native one
\* throws.
C33_PassThrough ==
  [][/\ \A observer \in Observers, options \in OptionSet, nativeThrows \in BOOLEAN :
          (~SelectsScroll(options) /\ Observe(observer, options, nativeThrows)) =>
            /\ scrollObservers' = scrollObservers
            /\ lastCall'.forwarded
            /\ lastCall'.nativeThrew = nativeThrows
            /\ lastCall'.threw = nativeThrows
     /\ \A observer \in Observers :
          Disconnect(observer) => lastCall'.forwarded]_vars

\* C34: when an observer callback throws while a record is dispatched, the
\* ended state is cleared all the same, the callbacks after it are invoked
\* too, and no second record is built for the interaction.
C34_FailingObserver ==
  lastEnd.threw =>
    /\ ~IsLive
    /\ Len(lastEnd.notified) = lastEnd.subs
    /\ lastEnd.nth = 1

\* C35: the idle-timer expiry of a live interaction builds its record and
\* ends it whatever its start time is, 0 included: no expiry finds an
\* interaction live, emits nothing and leaves it live.
C35_EndIndependentOfClock ==
  (lastEnd.at # NoTime /\ lastEnd.firstMove # NoTime) =>
    /\ lastEnd.emitted
    /\ lastEnd.entry.startTime = lastEnd.firstMove

\* C36: the callback of an observer is invoked once for a record, also when
\* the observer has called observe() for scroll more than once: no observer
\* accounts for two invocations of the same dispatch.
C36_OncePerObserver ==
  lastEnd.emitted =>
    \A i, j \in 1..Len(lastEnd.notifiedBy) :
      lastEnd.notifiedBy[i] = lastEnd.notifiedBy[j] => i = j

\* C37: disconnect() on an observer removes the scroll subscriptions of that
\* observer and leaves those of every other observer in the registry, also
\* of an observer constructed with the same callback function.
C37_DisconnectIsLocal ==
  [][\A observer \in Observers :
       Disconnect(observer) =>
         owners' = SelectSeq(owners, LAMBDA o : o # observer)]_vars

\* C38: every frame callback of a live interaction adds exactly 1 to the
\* produced count and at least 1 to the expected count, so that the expected
\* count is never below the produced count, in the engine and in every
\* record, and framesDropped is never negative.
C38_ProducedAtMostExpected ==
  [][/\ expectedFrames' >= frameCount'
     /\ \A timestamp \in FrameTimes :
          (IsLive /\ FrameCallback(timestamp)) =>
            /\ frameCount' = frameCount + 1
            /\ expectedFrames' >= expectedFrames + 1
     /\ lastEnd'.emitted =>
          /\ lastEnd'.entry.framesExpected >= lastEnd'.entry.framesProduced
          /\ lastEnd'.entry.framesDropped >= 0]_vars

\* C38, its case: a record whose only frame ran at the very time the
\* interaction started, counted as one frame expected and one produced.
C38_Witness ==
  /\ lastEnd.emitted
  /\ lastEnd.entry.framesProduced = 1
  /\ lastEnd.entry.framesDropped = 0
  /\ lastFrameTime = lastEnd.entry.startTime

\* C39: the dispatch of a record returns after finitely many invocations,
\* also when a callback calls observe({type: 'scroll'}) or disconnect() on
\* its observer while it runs: no dispatch is still running however far it
\* is followed.
C39_DispatchTerminates ==
  lastEnd.emitted => ~lastEnd.running

\* C40: installation is idempotent: however often the script runs on a
\* window that has PerformanceScrollTiming, one copy of the listeners and
\* one wrapper of PerformanceObserver are installed, and every record is
\* emitted by that one copy.
C40_InstallIdempotent ==
  /\ installs = 1
  /\ window = {"PerformanceObserver", "PerformanceScrollTiming"}
  /\ lastEnd.emitted => lastEnd.copies = 1

\* The script has run again and an interaction after it has been reported
\* to a subscriber.
C40_Witness ==
  /\ scriptRuns >= 2
  /\ lastEnd.emitted
  /\ Len(lastEnd.notified) >= 1

=============================================================================
